---- MODULE Spec2Model ----
(***************************************************************************)
(* Verification model of the battlesnake engine core:                      *)
(*   - controller/redis/redis.go : the redis backed game store (lock       *)
(*     lease, frame log)                                                   *)
(*   - rules (tick.go)           : GameTick, the per-turn simulation       *)
(* Four specifications share the variables below:                          *)
(*   SpecLock   clients calling Store.Lock / Store.Unlock while the lease  *)
(*              clock runs                                                 *)
(*   SpecLog    clients calling Store.PushGameFrame / Store.ListGameFrames *)
(*   SpecWorker workers running Lock -> read -> tick -> push -> Unlock     *)
(*   SpecTick   sequences of GameTick calls on one game                    *)
(***************************************************************************)
EXTENDS Integers, Sequences, FiniteSets, TLC

(***************************************************************************)
(* Bounds of the model                                                     *)
(***************************************************************************)
MaxTokens == 3      \* how many distinct non-empty tokens exist
LeaseTicks == 2     \* clock ticks in the lease of one minute

Games == {"g1", "g2"}       \* game ids
Clients == {"w1", "w2"}     \* concurrent callers of the store
Tokens == 1..MaxTokens

VARIABLES
    lock,       \* redis keys games:<id>:lock : [Games -> lock entry]
    call,       \* SpecLock: per client, the Lock/Unlock call in progress or last returned
    frames,     \* redis lists games:<id>:frames : [Games -> Seq(serialized frame)]
    pushed,     \* SpecLog: the frames handed to PushGameFrame, per game, in call order
    lastPush,   \* SpecLog: the PushGameFrame call, when it was the last call, and its result
    lastList,   \* SpecLog: the ListGameFrames call, when it was the last call, and its result
    wpc,        \* SpecWorker: per worker, its position in the cycle
    wtok,       \* SpecWorker: per worker, the token its Lock returned
    wframe,     \* SpecWorker: per worker, the frame it read / produced
    frame,      \* SpecTick: the frame GameTick returned last (input of the next tick)
    tick        \* SpecTick: what the last GameTick call did (inputs, intermediate results)

vars == <<lock, call, frames, pushed, lastPush, lastList, wpc, wtok, wframe, frame, tick>>
lockVars == <<lock, call>>
logVars == <<frames, pushed, lastPush, lastList>>
workerVars == <<wpc, wtok, wframe>>
tickVars == <<frame, tick>>

(***************************************************************************)
(* Errors. A Go error is modelled as the sequence of its messages, outer   *)
(* wrapping first; the nil error is the empty sequence.                    *)
(***************************************************************************)
NilErr == <<>>
ErrIsLocked == <<"controller: game is locked">>
ErrNotFound == <<"controller: game not found">>
RedisNil == <<"redis: nil">>

\* errors.Wrap of github.com/pkg/errors: wrapping the nil error gives nil.
Wrap(err, msg) == IF err = NilErr THEN NilErr ELSE <<msg>> \o err

(***************************************************************************)
(* The lock key of a game: absent, or a token with a remaining lifetime.   *)
(* The empty token "" is 0, the non-empty tokens are 1..MaxTokens.         *)
(***************************************************************************)
EmptyToken == 0
NoLock == [token |-> EmptyToken, ttl |-> 0]

\* SETNX key token EX ttl: creates the key only when it is absent.
SetNXAlways(entry, token, ttl) ==
    [val |-> TRUE, entry |-> [token |-> token, ttl |-> ttl]]
SetNXRenew(entry, token, ttl) ==
    IF entry = NoLock
    THEN [val |-> TRUE, entry |-> [token |-> token, ttl |-> ttl]]
    ELSE IF entry.token = token
    THEN [val |-> FALSE, entry |-> [token |-> token, ttl |-> ttl]]
    ELSE [val |-> FALSE, entry |-> entry]
SetNX(entry, token, ttl) ==
    IF entry = NoLock
    THEN [val |-> TRUE, entry |-> [token |-> token, ttl |-> ttl]]
    ELSE [val |-> FALSE, entry |-> entry]

\* GET key: the value, or the redis.Nil error when the key is absent.
Get(entry) ==
    IF entry = NoLock
    THEN [val |-> EmptyToken, err |-> RedisNil]
    ELSE [val |-> entry.token, err |-> NilErr]

\* Store.Lock from the TxPipeline on: SETNX and GET run as one MULTI/EXEC
\* transaction; token is the caller's token or the one generated for it.
LockTxNoRelock(entry, token) ==
    LET newLock == SetNX(entry, token, LeaseTicks)
        lockTkn == Get(newLock.entry)
    IN  IF lockTkn.err # NilErr
        THEN [entry |-> newLock.entry, token |-> EmptyToken,
              err |-> Wrap(lockTkn.err, "unexpected redis error during tx pipeline")]
        ELSE IF newLock.val
        THEN [entry |-> newLock.entry, token |-> lockTkn.val, err |-> NilErr]
        ELSE [entry |-> newLock.entry, token |-> EmptyToken, err |-> ErrIsLocked]
LockTx(entry, token) ==
    LET newLock == SetNX(entry, token, LeaseTicks)
        lockTkn == Get(newLock.entry)
    IN  IF lockTkn.err # NilErr
        THEN [entry |-> newLock.entry, token |-> EmptyToken,
              err |-> Wrap(lockTkn.err, "unexpected redis error during tx pipeline")]
        ELSE IF newLock.val \/ token = lockTkn.val
        THEN [entry |-> newLock.entry, token |-> lockTkn.val, err |-> NilErr]
        ELSE [entry |-> newLock.entry, token |-> EmptyToken, err |-> ErrIsLocked]

\* The UnlockCmd Lua script, run atomically by redis: compare and delete.
UnlockCmd(entry, argv) ==
    IF Get(entry).err = NilErr /\ Get(entry).val = argv
    THEN [entry |-> NoLock, lua |-> TRUE]
    ELSE [entry |-> entry, lua |-> FALSE]

\* Script.Run(...).Result(): redis converts a Lua true to the integer 1 and a
\* Lua false to a nil bulk reply, which go-redis hands back as the error redis.Nil.
ScriptResult(lua) ==
    IF lua THEN [val |-> 1, err |-> NilErr] ELSE [val |-> 0, err |-> RedisNil]

\* Store.Unlock
Unlock(entry, token) ==
    IF token = EmptyToken
    THEN [entry |-> entry, err |-> ErrNotFound]
    ELSE LET s == UnlockCmd(entry, token)
             r == ScriptResult(s.lua)
         IN  IF r.err # NilErr
             THEN [entry |-> s.entry,
                   err |-> Wrap(r.err, "unexpected redis error during unlock")]
             ELSE IF r.val # 1
             THEN [entry |-> s.entry, err |-> ErrNotFound]
             ELSE [entry |-> s.entry, err |-> NilErr]

\* Expiry of a key after one more unit of time.
AgeNever(entry) == entry
Age(entry) ==
    IF entry = NoLock THEN NoLock
    ELSE IF entry.ttl <= 1 THEN NoLock
    ELSE [entry EXCEPT !.ttl = @ - 1]

(***************************************************************************)
(* SpecLock: clients of the store's lock                                   *)
(***************************************************************************)
NoCall == [op |-> "none", st |-> "idle", game |-> "", arg |-> EmptyToken,
           token |-> EmptyToken, ret |-> EmptyToken, err |-> NilErr, clean |-> FALSE]

\* The tokens some key or some call holds.
TokensInUse(c) ==
    {lock[g].token : g \in Games} \cup {call[d].token : d \in Clients \ {c}}
        \cup {wtok[d] : d \in (DOMAIN wtok) \ {c}}

\* uuid.NewV4(): a token no key and no other call holds.
NewV4(c) == CHOOSE t \in Tokens \ TokensInUse(c) :
                \A u \in Tokens \ TokensInUse(c) : t <= u

\* A lock key was deleted: the calls on that game are no longer calls with a
\* generated token that started on an absent lock which stayed untouched
\* (the field clean of a call).
Touched(calls, gs) ==
    [c \in Clients |-> IF calls[c].game \in gs
                       THEN [calls[c] EXCEPT !.clean = FALSE] ELSE calls[c]]

\* The tokens generated for calls that have not returned yet: no caller can
\* know them.
TokensUnreturned(c) ==
    {call[d].token : d \in {e \in Clients \ {c} :
                                call[e].st = "pending" /\ call[e].arg = EmptyToken}}

\* Store.Lock, entry to the pipeline: the token is generated when empty.
LockBegin(c, g, arg) ==
    /\ call[c].st # "pending"
    /\ arg = EmptyToken => Tokens \ TokensInUse(c) # {}
    /\ arg \notin TokensUnreturned(c)
    /\ call' = [call EXCEPT ![c] =
                   [op |-> "Lock", st |-> "pending", game |-> g, arg |-> arg,
                    token |-> IF arg = EmptyToken THEN NewV4(c) ELSE arg,
                    ret |-> EmptyToken, err |-> NilErr,
                    clean |-> arg = EmptyToken /\ lock[g] = NoLock]]
    /\ UNCHANGED <<lock, logVars, workerVars, tickVars>>

\* Store.Lock, the pipeline and the return.
LockExec(c) ==
    /\ call[c].op = "Lock" /\ call[c].st = "pending"
    /\ LET g == call[c].game
           r == LockTx(lock[g], call[c].token)
       IN  /\ lock' = [lock EXCEPT ![g] = r.entry]
           /\ call' = [call EXCEPT ![c].st = "done", ![c].ret = r.token,
                                   ![c].err = r.err]
    /\ UNCHANGED <<logVars, workerVars, tickVars>>

\* Store.Unlock: one call, one round trip to redis.
UnlockCall(c, g, arg) ==
    /\ call[c].st # "pending"
    /\ LET r == Unlock(lock[g], arg)
           deleted == IF r.entry # lock[g] THEN {g} ELSE {}
       IN  /\ lock' = [lock EXCEPT ![g] = r.entry]
           /\ call' = [Touched(call, deleted) EXCEPT ![c] =
                          [op |-> "Unlock", st |-> "done", game |-> g, arg |-> arg,
                           token |-> arg, ret |-> EmptyToken, err |-> r.err,
                           clean |-> FALSE]]
    /\ UNCHANGED <<logVars, workerVars, tickVars>>

\* Time passes: every lock key is one unit closer to its expiry.
ClockTick ==
    /\ \E g \in Games : lock[g] # NoLock
    /\ lock' = [g \in Games |-> Age(lock[g])]
    /\ call' = Touched(call, {g \in Games : lock[g] # NoLock /\ Age(lock[g]) = NoLock})
    /\ UNCHANGED <<logVars, workerVars, tickVars>>

InitLockVars ==
    /\ lock = [g \in Games |-> NoLock]
    /\ call = [c \in Clients |-> NoCall]

InitIdle ==
    /\ frames = <<>>
    /\ pushed = <<>>
    /\ lastPush = <<>>
    /\ lastList = <<>>
    /\ wpc = <<>>
    /\ wtok = <<>>
    /\ wframe = <<>>
    /\ frame = <<>>
    /\ tick = <<>>

InitLock == InitLockVars /\ InitIdle

NextLock ==
    \/ \E c \in Clients, g \in Games, arg \in Tokens \cup {EmptyToken} : LockBegin(c, g, arg)
    \/ \E c \in Clients : LockExec(c)
    \/ \E c \in Clients, g \in Games, arg \in Tokens \cup {EmptyToken} : UnlockCall(c, g, arg)
    \/ ClockTick

SpecLock == InitLock /\ [][NextLock]_vars

(***************************************************************************)
(* Frames and their serialized form. A point is <<x, y>>; a snake is a     *)
(* record of its body (head first), its health and its death cause ("" when*)
(* it has none); a frame is a record of turn, snakes and food.             *)
(* proto.Marshal writes a message as the sequence of its fields, leaving   *)
(* out every field that holds the zero value; proto.Unmarshal starts from  *)
(* the zero message and reads the fields back.                             *)
(***************************************************************************)
Fld(num, varint, str, bytes) == [num |-> num, varint |-> varint, str |-> str, bytes |-> bytes]

RECURSIVE Concat(_)
Concat(ss) == IF ss = <<>> THEN <<>> ELSE Head(ss) \o Concat(Tail(ss))

MarshalPoint(p) ==
    (IF p[1] # 0 THEN <<Fld(1, p[1], "", <<>>)>> ELSE <<>>)
    \o (IF p[2] # 0 THEN <<Fld(2, p[2], "", <<>>)>> ELSE <<>>)

MarshalSnake(sn) ==
    [i \in 1..Len(sn.Body) |-> Fld(4, 0, "", MarshalPoint(sn.Body[i]))]
    \o (IF sn.Health # 0 THEN <<Fld(5, sn.Health, "", <<>>)>> ELSE <<>>)
    \o (IF sn.Death # "" THEN <<Fld(6, 0, "", <<Fld(1, 0, sn.Death, <<>>)>>)>> ELSE <<>>)

Marshal(f) ==
    (IF f.Turn # 0 THEN <<Fld(1, f.Turn, "", <<>>)>> ELSE <<>>)
    \o [i \in 1..Len(f.Food) |-> Fld(2, 0, "", MarshalPoint(f.Food[i]))]
    \o [i \in 1..Len(f.Snakes) |-> Fld(3, 0, "", MarshalSnake(f.Snakes[i]))]

\* The last field numbered num, or the zero field when there is none.
LastFld(bytes, num) ==
    LET is == {i \in 1..Len(bytes) : bytes[i].num = num}
    IN  IF is = {} THEN Fld(num, 0, "", <<>>)
        ELSE bytes[CHOOSE i \in is : \A j \in is : j <= i]

\* The fields numbered num, in order.
Repeated(bytes, num) == SelectSeq(bytes, LAMBDA fl : fl.num = num)

UnmarshalPoint(bytes) == <<LastFld(bytes, 1).varint, LastFld(bytes, 2).varint>>

UnmarshalSnake(bytes) ==
    LET body == Repeated(bytes, 4)
    IN  [Body |-> [i \in 1..Len(body) |-> UnmarshalPoint(body[i].bytes)],
         Health |-> LastFld(bytes, 5).varint,
         Death |-> LastFld(LastFld(bytes, 6).bytes, 1).str]

Unmarshal(bytes) ==
    LET food == Repeated(bytes, 2)
        snakes == Repeated(bytes, 3)
    IN  [Turn |-> LastFld(bytes, 1).varint,
         Food |-> [i \in 1..Len(food) |-> UnmarshalPoint(food[i].bytes)],
         Snakes |-> [i \in 1..Len(snakes) |-> UnmarshalSnake(snakes[i].bytes)]]

(***************************************************************************)
(* The frame list of a game                                                *)
(***************************************************************************)
\* RPUSH key value: appends, and replies with the length of the list after
\* the push.
LPush(list, v) == [list |-> <<v>> \o list, val |-> Len(list) + 1]
RPush(list, v) == [list |-> Append(list, v), val |-> Len(list) + 1]

\* LRANGE key start stop: both ends inclusive, negative indexes count from
\* the end of the list, out of range indexes are clamped.
LRange(list, start, stop) ==
    LET n == Len(list)
        s0 == IF start < 0 THEN n + start ELSE start
        e0 == IF stop < 0 THEN n + stop ELSE stop
        s1 == IF s0 < 0 THEN 0 ELSE s0
        e1 == IF e0 >= n THEN n - 1 ELSE e0
    IN  IF s1 > e0 \/ s1 >= n THEN <<>> ELSE SubSeq(list, s1 + 1, e1 + 1)

\* Store.PushGameFrame
PushGameFrame(list, t) ==
    LET frameBytes == Marshal(t)
        r == RPush(list, frameBytes)
        err == NilErr       \* the error of RPush(...).Result(): the backend answered
    IN  IF r.val # 1
        THEN [list |-> r.list, numAdded |-> r.val,
              err |-> Wrap(err, "unexpected redis result")]
        ELSE [list |-> r.list, numAdded |-> r.val, err |-> NilErr]

\* Store.ListGameFrames
ListGameFrames(list, limit, offset) ==
    IF limit <= 0
    THEN [frames |-> <<>>, err |-> <<"invalid limit">>]
    ELSE LET start == offset
             end == IF offset <= 0 THEN limit + offset - 1 ELSE limit + offset
             frameData == LRange(list, start, end)
         IN  [frames |-> [i \in 1..Len(frameData) |-> Unmarshal(frameData[i])],
              err |-> NilErr]

(***************************************************************************)
(* SpecLog: clients of the frame log                                       *)
(***************************************************************************)
MaxLog == 4         \* frames pushed at most, all games together
MaxLimit == 3       \* largest limit handed to ListGameFrames
MaxOffset == 2      \* largest offset, either sign, handed to ListGameFrames

RECURSIVE SumLen(_, _)
SumLen(f, gs) ==
    IF gs = {} THEN 0
    ELSE LET g == CHOOSE x \in gs : TRUE IN Len(f[g]) + SumLen(f, gs \ {g})

\* The frames handed to PushGameFrame.
LogFrames ==
    { [Turn |-> 0, Food |-> <<>>, Snakes |-> <<>>],
      [Turn |-> 1, Food |-> << <<0, 1>>, <<0, 0>> >>,
       Snakes |-> << [Body |-> << <<1, 0>>, <<0, 0>> >>, Health |-> 99, Death |-> ""],
                     [Body |-> <<>>, Health |-> 0, Death |-> "starvation"] >>] }

Limits == 0..MaxLimit
Offsets == (0 - MaxOffset)..MaxOffset

NoPush == [op |-> "none", game |-> "", numAdded |-> 0, err |-> NilErr]
NoList == [op |-> "none", game |-> "", limit |-> 0, offset |-> 0, frames |-> <<>>,
           err |-> NilErr]

Push(g, t) ==
    /\ SumLen(frames, Games) < MaxLog
    /\ LET r == PushGameFrame(frames[g], t)
       IN  /\ frames' = [frames EXCEPT ![g] = r.list]
           /\ pushed' = [pushed EXCEPT ![g] = Append(@, [frame |-> t, err |-> r.err])]
           /\ lastPush' = [op |-> "Push", game |-> g, numAdded |-> r.numAdded,
                           err |-> r.err]
           /\ lastList' = NoList
    /\ UNCHANGED <<lockVars, workerVars, tickVars>>

List(g, limit, offset) ==
    /\ LET r == ListGameFrames(frames[g], limit, offset)
       IN  lastList' = [op |-> "List", game |-> g, limit |-> limit, offset |-> offset,
                        frames |-> r.frames, err |-> r.err]
    /\ lastPush' = NoPush
    /\ UNCHANGED <<frames, pushed, lockVars, workerVars, tickVars>>

InitLog ==
    /\ frames = [g \in Games |-> <<>>]
    /\ pushed = [g \in Games |-> <<>>]
    /\ lastPush = NoPush
    /\ lastList = NoList
    /\ lock = <<>> /\ call = <<>>
    /\ wpc = <<>> /\ wtok = <<>> /\ wframe = <<>>
    /\ frame = <<>> /\ tick = <<>>

NextLog ==
    \/ \E g \in Games, t \in LogFrames : Push(g, t)
    \/ \E g \in Games, limit \in Limits, offset \in Offsets : List(g, limit, offset)

SpecLog == InitLog /\ [][NextLog]_vars

(***************************************************************************)
(* SpecWorker: workers advancing games. Each worker repeats                *)
(*   Lock(game, "") -> read the latest frame -> GameTick -> PushGameFrame  *)
(*   -> Unlock(game, token)   (or it leaves the lock to expire)            *)
(* and may be arbitrarily slow between two steps, so the lease clock can   *)
(* tick anywhere.                                                          *)
(***************************************************************************)
\* The frame a game is created with.
Frame0 == [Turn |-> 0, Food |-> <<>>, Snakes |-> <<>>]

\* GameTick on a frame without snakes and food: the next frame's turn is the
\* previous turn plus one.
NextTurn(lastFrame) ==
    [Turn |-> lastFrame.Turn + 1, Snakes |-> lastFrame.Snakes, Food |-> lastFrame.Food]

Idle == [pc |-> "idle", game |-> ""]

WLock(w, g) ==
    /\ wpc[w].pc = "idle"
    /\ Len(frames[g]) < MaxLog
    /\ Tokens \ TokensInUse(w) # {}
    /\ LET r == LockTx(lock[g], NewV4(w))
       IN  /\ lock' = [lock EXCEPT ![g] = r.entry]
           /\ IF r.err = NilErr
              THEN /\ wpc' = [wpc EXCEPT ![w] = [pc |-> "locked", game |-> g]]
                   /\ wtok' = [wtok EXCEPT ![w] = r.token]
              ELSE UNCHANGED <<wpc, wtok>>
    /\ UNCHANGED <<call, wframe, logVars, tickVars>>

WRead(w) ==
    /\ wpc[w].pc = "locked"
    /\ LET r == ListGameFrames(frames[wpc[w].game], 1, -1)
       IN  /\ r.err = NilErr /\ Len(r.frames) = 1
           /\ wframe' = [wframe EXCEPT ![w] = r.frames[1]]
    /\ wpc' = [wpc EXCEPT ![w].pc = "read"]
    /\ UNCHANGED <<wtok, lockVars, logVars, tickVars>>

WTick(w) ==
    /\ wpc[w].pc = "read"
    /\ wframe' = [wframe EXCEPT ![w] = NextTurn(@)]
    /\ wpc' = [wpc EXCEPT ![w].pc = "ticked"]
    /\ UNCHANGED <<wtok, lockVars, logVars, tickVars>>

WPush(w) ==
    /\ wpc[w].pc = "ticked"
    /\ LET g == wpc[w].game
           r == PushGameFrame(frames[g], wframe[w])
       IN  frames' = [frames EXCEPT ![g] = r.list]
    /\ wpc' = [wpc EXCEPT ![w].pc = "pushed"]
    /\ UNCHANGED <<wtok, wframe, pushed, lastPush, lastList, lockVars, tickVars>>

WUnlock(w) ==
    /\ wpc[w].pc = "pushed"
    /\ LET g == wpc[w].game
       IN  lock' = [lock EXCEPT ![g] = Unlock(@, wtok[w]).entry]
    /\ wpc' = [wpc EXCEPT ![w] = Idle]
    /\ wtok' = [wtok EXCEPT ![w] = EmptyToken]
    /\ wframe' = [wframe EXCEPT ![w] = Frame0]
    /\ UNCHANGED <<call, logVars, tickVars>>

WLeave(w) ==
    /\ wpc[w].pc = "pushed"
    /\ wpc' = [wpc EXCEPT ![w] = Idle]
    /\ wtok' = [wtok EXCEPT ![w] = EmptyToken]
    /\ wframe' = [wframe EXCEPT ![w] = Frame0]
    /\ UNCHANGED <<lockVars, logVars, tickVars>>

InitWorker ==
    /\ InitLockVars
    /\ frames = [g \in Games |-> <<Marshal(Frame0)>>]
    /\ pushed = <<>> /\ lastPush = NoPush /\ lastList = NoList
    /\ wpc = [w \in Clients |-> Idle]
    /\ wtok = [w \in Clients |-> EmptyToken]
    /\ wframe = [w \in Clients |-> Frame0]
    /\ frame = <<>> /\ tick = <<>>

NextWorker ==
    \/ \E w \in Clients, g \in Games : WLock(w, g)
    \/ \E w \in Clients : WRead(w)
    \/ \E w \in Clients : WTick(w)
    \/ \E w \in Clients : WPush(w)
    \/ \E w \in Clients : WUnlock(w)
    \/ \E w \in Clients : WLeave(w)
    \/ ClockTick

SpecWorker == InitWorker /\ [][NextWorker]_vars

(***************************************************************************)
(* The tick engine. Snakes are held by pointer: the frame GameTick returns *)
(* shares its snakes with the frame it was given.                          *)
(***************************************************************************)
\* The game: the grid GameTick reads from game.Width and game.Height.
Game == [Width |-> 3, Height |-> 2]

MaxTurn == 2        \* GameTick calls in a row

DeathCauseStarvation == "starvation"
DeathCauseWallCollision == "wall-collision"
DeathCauseSnakeCollision == "snake-collision"

Dirs == {"up", "down", "left", "right"}

\* snake.Head(): the first body point, or nil (the empty sequence) for an
\* empty body.
SnakeHead(sn) == IF sn.Body = <<>> THEN <<>> ELSE sn.Body[1]

\* frame.AliveSnakes(): the indexes of the snakes without a death cause.
AliveSnakes(snakes) == {i \in 1..Len(snakes) : snakes[i].Death = ""}

\* Snake.Move: a new head one step in the direction, in front of the body.
Move(sn, dir) ==
    IF sn.Body = <<>> THEN sn
    ELSE LET h == sn.Body[1]
             nh == CASE dir = "up" -> <<h[1], h[2] - 1>>
                     [] dir = "down" -> <<h[1], h[2] + 1>>
                     [] dir = "left" -> <<h[1] - 1, h[2]>>
                     [] dir = "right" -> <<h[1] + 1, h[2]>>
         IN  [sn EXCEPT !.Body = <<nh>> \o @]

\* Snake.DefaultMove: straight on, from neck to head; up without a neck.
DefaultMove(sn) ==
    IF sn.Body = <<>> THEN sn
    ELSE IF Len(sn.Body) = 1 \/ sn.Body[1] = sn.Body[2] THEN Move(sn, "up")
    ELSE LET h == sn.Body[1]
             n == sn.Body[2]
         IN  [sn EXCEPT !.Body = << <<h[1] + (h[1] - n[1]), h[2] + (h[2] - n[2])>> >> \o @]

\* updateSnakes: moves[i] is the direction gathered for snake i, "err" when
\* gathering failed, "none" when there is no update for the snake.
updateSnakes(snakes, moves) ==
    [i \in 1..Len(snakes) |->
        IF moves[i] = "none" THEN snakes[i]
        ELSE IF moves[i] = "err" THEN DefaultMove(snakes[i])
        ELSE Move(snakes[i], moves[i])]

\* checkForDeath: for every alive snake, in order, the causes found on the
\* moved frame: starvation, wall collision, snake collision.
OutOfBounds(p, width, height) == p[1] < 0 \/ p[1] >= width \/ p[2] < 0 \/ p[2] >= height

HitsSnake(snakes, i) ==
    \E j \in AliveSnakes(snakes) : \E k \in 1..Len(snakes[j].Body) :
        /\ ~(j = i /\ k = 1)
        /\ snakes[j].Body[k] = SnakeHead(snakes[i])

CausesOf(width, height, snakes, i) ==
    IF snakes[i].Death # "" THEN <<>>
    ELSE (IF snakes[i].Health <= 0
          THEN <<[snake |-> i, death |-> DeathCauseStarvation]>> ELSE <<>>)
      \o (IF snakes[i].Body # <<>> /\ OutOfBounds(SnakeHead(snakes[i]), width, height)
          THEN <<[snake |-> i, death |-> DeathCauseWallCollision]>> ELSE <<>>)
      \o (IF snakes[i].Body # <<>> /\ HitsSnake(snakes, i)
          THEN <<[snake |-> i, death |-> DeathCauseSnakeCollision]>> ELSE <<>>)

checkForDeath(width, height, snakes) ==
    Concat([i \in 1..Len(snakes) |-> CausesOf(width, height, snakes, i)])

\* GameTick's loop over deathUpdates: a cause is written only to a snake
\* that has none.
RECURSIVE ApplyDeathsOverwrite(_, _)
ApplyDeathsOverwrite(snakes, dus) ==
    IF dus = <<>> THEN snakes
    ELSE ApplyDeathsOverwrite([snakes EXCEPT ![Head(dus).snake].Death = Head(dus).death],
                              Tail(dus))
RECURSIVE ApplyDeaths(_, _)
ApplyDeaths(snakes, dus) ==
    IF dus = <<>> THEN snakes
    ELSE LET du == Head(dus)
         IN  ApplyDeaths(IF snakes[du.snake].Death = ""
                         THEN [snakes EXCEPT ![du.snake].Death = du.death]
                         ELSE snakes,
                         Tail(dus))

\* GameTick's loop over AliveSnakes: one health point less.
ReduceHealthFirst(snakes) ==
    [i \in 1..Len(snakes) |-> [snakes[i] EXCEPT !.Health = @ - 1]]
ReduceHealth(snakes) ==
    [i \in 1..Len(snakes) |->
        IF snakes[i].Death = "" THEN [snakes[i] EXCEPT !.Health = @ - 1] ELSE snakes[i]]

\* checkForSnakesEating: the food points under the head of alive snake i.
FoodUnder(sn, food) == SelectSeq(food, LAMBDA f : f = SnakeHead(sn))

EatingAlwaysShrinks(snakes, food) ==
    [snakes |-> [i \in 1..Len(snakes) |->
                    IF snakes[i].Death # "" \/ snakes[i].Body = <<>> THEN snakes[i]
                    ELSE [snakes[i] EXCEPT
                            !.Health = IF FoodUnder(snakes[i], food) # <<>> THEN 100 ELSE @,
                            !.Body = SubSeq(@, 1, Len(@) - 1)]],
     foodToRemove |-> Concat([i \in 1..Len(snakes) |->
                                IF snakes[i].Death # "" THEN <<>>
                                ELSE FoodUnder(snakes[i], food)])]
EatingNeverShrinks(snakes, food) ==
    [snakes |-> [i \in 1..Len(snakes) |->
                    IF snakes[i].Death # "" THEN snakes[i]
                    ELSE IF FoodUnder(snakes[i], food) # <<>>
                    THEN [snakes[i] EXCEPT !.Health = 100]
                    ELSE snakes[i]],
     foodToRemove |-> Concat([i \in 1..Len(snakes) |->
                                IF snakes[i].Death # "" THEN <<>>
                                ELSE FoodUnder(snakes[i], food)])]
EatingNoReset(snakes, food) ==
    [snakes |-> [i \in 1..Len(snakes) |->
                    IF snakes[i].Death # "" THEN snakes[i]
                    ELSE IF FoodUnder(snakes[i], food) # <<>> THEN snakes[i]
                    ELSE IF Len(snakes[i].Body) = 0 THEN snakes[i]
                    ELSE [snakes[i] EXCEPT !.Body = SubSeq(@, 1, Len(@) - 1)]],
     foodToRemove |-> Concat([i \in 1..Len(snakes) |->
                                IF snakes[i].Death # "" THEN <<>>
                                ELSE FoodUnder(snakes[i], food)])]
checkForSnakesEating(snakes, food) ==
    [snakes |-> [i \in 1..Len(snakes) |->
                    IF snakes[i].Death # "" THEN snakes[i]
                    ELSE IF FoodUnder(snakes[i], food) # <<>>
                    THEN [snakes[i] EXCEPT !.Health = 100]
                    ELSE IF Len(snakes[i].Body) = 0 THEN snakes[i]
                    ELSE [snakes[i] EXCEPT !.Body = SubSeq(@, 1, Len(@) - 1)]],
     foodToRemove |-> Concat([i \in 1..Len(snakes) |->
                                IF snakes[i].Death # "" THEN <<>>
                                ELSE FoodUnder(snakes[i], food)])]

\* getUniqOccupiedPoints: the food points and the body points of the alive
\* snakes, each once.
getUniqOccupiedPoints(food, snakes) ==
    {food[k] : k \in 1..Len(food)}
    \cup UNION {{snakes[i].Body[k] : k \in 1..Len(snakes[i].Body)} : i \in AliveSnakes(snakes)}

\* getUnoccupiedPoints: the grid cells that are not occupied, x outer and y
\* inner, both ascending.
getUnoccupiedPoints(width, height, food, snakes) ==
    LET occupiedPoints == getUniqOccupiedPoints(food, snakes)
        cell(n) == <<(n - 1) \div height, (n - 1) % height>>
    IN  SelectSeq([n \in 1..(width * height) |-> cell(n)],
                  LAMBDA p : p \notin occupiedPoints)

\* updateFood: gameFrame is the frame GameTick was given (its food, and its
\* snakes as they are by now); rnd[k] is the index rand.Intn draws for the
\* k-th removed food point.
KeptFood(food, foodToRemove) ==
    SelectSeq(food, LAMBDA f : \A k \in 1..Len(foodToRemove) : foodToRemove[k] # f)

updateFoodNoSpawn(width, height, food, snakes, foodToRemove, rnd) ==
    KeptFood(food, foodToRemove)
updateFood(width, height, food, snakes, foodToRemove, rnd) ==
    LET openPoints == getUnoccupiedPoints(width, height, food, snakes)
    IN  KeptFood(food, foodToRemove)
        \o (IF Len(openPoints) = 0 THEN <<>>
            ELSE [k \in 1..Len(foodToRemove) |-> openPoints[rnd[k]]])

\* GameTick up to the call of updateFood: the snakes after each step.
TickStepsReduceFirst(game, lastFrame, moves) ==
    LET moved == updateSnakes(lastFrame.Snakes, moves)
        reduced == ReduceHealth(moved)
        deathUpdates == checkForDeath(game.Width, game.Height, reduced)
        afterDeath == ApplyDeaths(reduced, deathUpdates)
        eating == checkForSnakesEating(afterDeath, lastFrame.Food)
    IN  [moved |-> moved, deathUpdates |-> deathUpdates, afterDeath |-> afterDeath,
         snakes |-> eating.snakes, foodToRemove |-> eating.foodToRemove,
         openPoints |-> getUnoccupiedPoints(game.Width, game.Height, lastFrame.Food,
                                            eating.snakes)]
TickSteps(game, lastFrame, moves) ==
    LET moved == updateSnakes(lastFrame.Snakes, moves)
        deathUpdates == checkForDeath(game.Width, game.Height, moved)
        afterDeath == ApplyDeaths(moved, deathUpdates)
        reduced == ReduceHealth(afterDeath)
        eating == checkForSnakesEating(reduced, lastFrame.Food)
    IN  [moved |-> moved, deathUpdates |-> deathUpdates, afterDeath |-> afterDeath,
         snakes |-> eating.snakes, foodToRemove |-> eating.foodToRemove,
         openPoints |-> getUnoccupiedPoints(game.Width, game.Height, lastFrame.Food,
                                            eating.snakes)]

\* GameTick from the call of updateFood on: the frame it returns (nextFrame)
\* and the frame it was given as it reads after the call (lastFrame, whose
\* snakes are nextFrame's).
TickResult(game, lastFrame, st, rnd) ==
    [nextFrame |-> [Turn |-> lastFrame.Turn + 1,
                    Snakes |-> st.snakes,
                    Food |-> updateFood(game.Width, game.Height, lastFrame.Food,
                                        st.snakes, st.foodToRemove, rnd)],
     lastFrame |-> [Turn |-> lastFrame.Turn, Snakes |-> st.snakes,
                    Food |-> lastFrame.Food]]

(***************************************************************************)
(* SpecTick: GameTick called on a frame, and again on the frame it returned*)
(***************************************************************************)
Cells == {<<x, y>> : x \in 0..(Game.Width - 1), y \in 0..(Game.Height - 1)}

Adjacent(p, q) ==
    \/ p[1] = q[1] /\ (p[2] - q[2] = 1 \/ q[2] - p[2] = 1)
    \/ p[2] = q[2] /\ (p[1] - q[1] = 1 \/ q[1] - p[1] = 1)

\* The bodies a snake starts with: empty, one point, or two points that are
\* stacked or next to each other.
InitBodies ==
    {<<>>} \cup {<<p>> : p \in Cells}
    \cup {b \in Cells \X Cells : b[1] = b[2] \/ Adjacent(b[1], b[2])}

InitHealths == {1, 100}

\* The first snake ranges over every start, the second over a few: a snake
\* of two points, a snake that has starved, a snake that died in an earlier
\* turn, a snake without a body.
InitSnakes1 ==
    {[Body |-> b, Health |-> h, Death |-> ""] : b \in InitBodies, h \in InitHealths}
InitSnakes2 ==
    {[Body |-> << <<2, 0>>, <<2, 1>> >>, Health |-> 50, Death |-> ""],
     [Body |-> << <<2, 0>> >>, Health |-> 0, Death |-> ""],
     [Body |-> << <<2, 0>>, <<2, 1>> >>, Health |-> 7, Death |-> DeathCauseWallCollision],
     [Body |-> <<>>, Health |-> 1, Death |-> ""]}

\* The food a game starts with: none, one point, two points, or the whole
\* grid but its first column.
InitFoods ==
    {<<>>} \cup {<<p>> : p \in Cells}
    \cup {<< <<1, 0>>, <<1, 1>> >>, << <<1, 0>>, <<1, 1>>, <<2, 0>>, <<2, 1>> >>}

MoveInputs(snakes) ==
    {mv \in [1..Len(snakes) -> Dirs \cup {"err", "none"}] :
        \A i \in 1..Len(snakes) : (mv[i] = "none") <=> (snakes[i].Death # "")}

RndInputs(st) ==
    IF Len(st.openPoints) = 0
    THEN {[k \in 1..Len(st.foodToRemove) |-> 0]}
    ELSE [1..Len(st.foodToRemove) -> 1..Len(st.openPoints)]

NoTick == [ran |-> FALSE]

Tick ==
    /\ frame.Turn < MaxTurn
    /\ \E mv \in MoveInputs(frame.Snakes) :
       \E st \in {TickSteps(Game, frame, mv)} :
       \E rnd \in RndInputs(st) :
       \E r \in {TickResult(Game, frame, st, rnd)} :
          /\ frame' = r.nextFrame
          /\ tick' = [ran |-> TRUE, last |-> frame, moves |-> mv,
                      moved |-> st.moved, deathUpdates |-> st.deathUpdates,
                      afterDeath |-> st.afterDeath,
                      foodToRemove |-> st.foodToRemove,
                      openPoints |-> st.openPoints,
                      lastAfter |-> r.lastFrame]
    /\ UNCHANGED <<lockVars, logVars, workerVars>>

InitTick ==
    /\ \E s1 \in InitSnakes1, s2 \in InitSnakes2, f \in InitFoods :
          frame = [Turn |-> 0, Snakes |-> <<s1, s2>>, Food |-> f]
    /\ tick = NoTick
    /\ lock = <<>> /\ call = <<>>
    /\ frames = <<>> /\ pushed = <<>> /\ lastPush = <<>> /\ lastList = <<>>
    /\ wpc = <<>> /\ wtok = <<>> /\ wframe = <<>>

NextTick == Tick

SpecTick == InitTick /\ [][NextTick]_vars

(***************************************************************************)
(* SpecCrash: clients of the store's lock that may crash while they hold a *)
(* lock. A crashed client takes no further step. The token Lock returned   *)
(* to it is known to it alone, so no other client passes it. Time goes on: *)
(* redis expires keys by the clock, whatever the clients do.               *)
(***************************************************************************)
Up == [pc |-> "up", game |-> ""]

\* The game the clients compete for; the lock keys of other games are other
\* redis keys, which no call on this game reads or writes.
CrashGames == {"g1"}

\* Client c has crashed while it held the lock of game g.
Crashed(c, g) == wpc[c].pc = "crashed" /\ wpc[c].game = g

\* The tokens returned to clients that crashed holding them.
DeadTokens == {call[c].ret : c \in {d \in Clients : wpc[d].pc = "crashed"}}

\* Client c holds the lock of a game: its last call is a Lock that succeeded
\* and the key still carries the token it returned.
Holds(c) ==
    /\ call[c].op = "Lock" /\ call[c].st = "done" /\ call[c].err = NilErr
    /\ lock[call[c].game].token = call[c].ret

Crash(c) ==
    /\ wpc[c] = Up
    /\ Holds(c)
    /\ wpc' = [wpc EXCEPT ![c] = [pc |-> "crashed", game |-> call[c].game]]
    /\ UNCHANGED <<wtok, wframe, lockVars, logVars, tickVars>>

LiveLockBegin(c, g, arg) == wpc[c] = Up /\ arg \notin DeadTokens /\ LockBegin(c, g, arg)

LiveLockExec(c) == wpc[c] = Up /\ LockExec(c)

LiveUnlock(c, g, arg) == wpc[c] = Up /\ arg \notin DeadTokens /\ UnlockCall(c, g, arg)

InitCrash ==
    /\ InitLockVars
    /\ wpc = [c \in Clients |-> Up]
    /\ wtok = <<>> /\ wframe = <<>>
    /\ frames = <<>> /\ pushed = <<>> /\ lastPush = <<>> /\ lastList = <<>>
    /\ frame = <<>> /\ tick = <<>>

NextCrash ==
    \/ \E c \in Clients, g \in CrashGames, arg \in Tokens \cup {EmptyToken} : LiveLockBegin(c, g, arg)
    \/ \E c \in Clients : LiveLockExec(c)
    \/ \E c \in Clients, g \in CrashGames, arg \in Tokens \cup {EmptyToken} : LiveUnlock(c, g, arg)
    \/ \E c \in Clients : Crash(c)
    \/ ClockTick

SpecCrash == InitCrash /\ [][NextCrash]_vars /\ WF_vars(ClockTick)

\*-- CLAIMS ---------------------------------------------------------------

(***************************************************************************)
(* Claims on the lock (SpecLock)                                           *)
(***************************************************************************)
\* A returned Lock call with an empty token argument that started on an absent
\* lock key which has not been deleted since.
RacingLock(c, g) ==
    /\ call[c].op = "Lock" /\ call[c].st = "done" /\ call[c].game = g
    /\ call[c].arg = EmptyToken /\ call[c].clean

\* C1: two concurrent Lock calls with empty tokens on a game whose lock is
\* absent never both succeed with different tokens: one of them created the
\* lock and got its own generated token, the other got that same token or
\* failed with ErrIsLocked.
C1_ConcurrentLockOneWinner ==
    \A g \in Games : \A c1 \in Clients : \A c2 \in Clients \ {c1} :
        (RacingLock(c1, g) /\ RacingLock(c2, g)) =>
            /\ ~(call[c1].err = NilErr /\ call[c2].err = NilErr
                    /\ call[c1].ret # call[c2].ret)
            /\ \E w \in {c1, c2} : \E l \in {c1, c2} \ {w} :
                    /\ call[w].err = NilErr /\ call[w].ret = call[w].token
                    /\ \/ call[l].err = ErrIsLocked /\ call[l].ret = EmptyToken
                       \/ call[l].err = NilErr /\ call[l].ret = call[w].ret

\* C1 witness: two such calls have returned, one with the lock it created,
\* the other with ErrIsLocked.
C1_Witness ==
    \E g \in Games : \E c1 \in Clients : \E c2 \in Clients \ {c1} :
        /\ RacingLock(c1, g) /\ RacingLock(c2, g)
        /\ call[c1].err = NilErr /\ call[c1].ret = call[c1].token
        /\ lock[g].token = call[c1].token
        /\ call[c2].err = ErrIsLocked

\* C3: Unlock with a non-empty token that is not the holder's (lock held by
\* another token, or lock absent) returns ErrNotFound and leaves the lock
\* key as it was.
C3_UnlockWrongTokenNotFound ==
    [][\A c \in Clients :
          (/\ call'[c] # call[c] /\ call'[c].op = "Unlock"
           /\ call'[c].arg # EmptyToken
           /\ call'[c].arg # lock[call'[c].game].token)
          => (/\ call'[c].err = ErrNotFound
              /\ lock'[call'[c].game] = lock[call'[c].game])]_vars

(***************************************************************************)
(* Claims on the frame log (SpecLog)                                       *)
(***************************************************************************)
\* The frames handed to PushGameFrame for game g, in call order.
Originals(g) == [i \in 1..Len(pushed[g]) |-> pushed[g][i].frame]

\* The frames at zero-indexed positions from .. to-1 of a sequence.
Window(fs, from, to) == SubSeq(fs, from + 1, IF to < Len(fs) THEN to ELSE Len(fs))

\* C4: PushGameFrame returns an error whenever the append reports a count
\* other than 1, and nil only when it reports exactly 1, for every push.
C4_PushErrorUnlessOneAdded ==
    lastPush.op = "Push" => (lastPush.err = NilErr <=> lastPush.numAdded = 1)

\* C5: after N >= 1 pushes to an empty log every push has returned nil and
\* ListGameFrames(id, N, 0) returns the N pushed frames, in push order, equal
\* to the originals.
C5_RoundTrip ==
    /\ \A g \in Games : \A i \in 1..Len(pushed[g]) : pushed[g][i].err = NilErr
    /\ (/\ lastList.op = "List" /\ lastList.offset = 0
        /\ lastList.limit >= 1 /\ lastList.limit = Len(pushed[lastList.game]))
       => (lastList.err = NilErr /\ lastList.frames = Originals(lastList.game))

\* C5 witness: a log of at least three frames, not all equal, was listed whole.
C5_Witness ==
    /\ lastList.op = "List" /\ lastList.offset = 0
    /\ lastList.limit = Len(pushed[lastList.game]) /\ lastList.limit >= 3
    /\ lastList.frames = Originals(lastList.game)
    /\ lastList.frames[1] # lastList.frames[2]

\* C6: with limit > 0 and offset >= 0, ListGameFrames returns the frames at
\* positions offset .. min(offset+limit, N)-1, never more than limit frames.
C6_WindowNonNegativeOffset ==
    (lastList.op = "List" /\ lastList.limit > 0 /\ lastList.offset >= 0)
    => /\ lastList.frames = Window(Originals(lastList.game), lastList.offset,
                                   lastList.offset + lastList.limit)
       /\ Len(lastList.frames) <= lastList.limit

\* C7: with limit > 0 and offset = -k, 1 <= k <= N, ListGameFrames returns the
\* frames at positions N-k .. min(N-k+limit, N)-1.
C7_WindowNegativeOffset ==
    LET n == Len(pushed[lastList.game])
        k == 0 - lastList.offset
    IN  (lastList.op = "List" /\ lastList.limit > 0 /\ 1 <= k /\ k <= n)
        => lastList.frames = Window(Originals(lastList.game), n - k, n - k + lastList.limit)


(***************************************************************************)
(* Claims on the worker cycle (SpecWorker)                                 *)
(***************************************************************************)
\* Worker w is between its successful Lock of game g and its PushGameFrame.
Advancing(w, g) == wpc[w].game = g /\ wpc[w].pc \in {"locked", "read", "ticked"}

\* C2: at most one worker is advancing a given game at any instant.
C2_OneWorkerAdvancing ==
    \A g \in Games : \A w1 \in Clients : \A w2 \in Clients \ {w1} :
        ~(Advancing(w1, g) /\ Advancing(w2, g))

(***************************************************************************)
(* Claims on GameTick (SpecTick). tick.last is the frame the last call was *)
(* given, as it was before the call; frame is the frame the call returned. *)
(***************************************************************************)
SnakeIds == 1..Len(frame.Snakes)

\* Snake i was alive in the previous frame.
WasAlive(i) == tick.last.Snakes[i].Death = ""

\* The head of snake i after its move lies on a food point of the previous frame.
HeadOnFood(i) ==
    /\ tick.moved[i].Body # <<>>
    /\ \E k \in 1..Len(tick.last.Food) : tick.last.Food[k] = tick.moved[i].Body[1]

\* Snake i is alive after this tick's death detection.
AliveAfterDetection(i) == tick.afterDeath[i].Death = ""

\* C8 as claimed: a snake alive with health 1 that does not eat ends the tick
\* with health 0 and the death cause starvation, also when it collides.
C8_StarvesInSameTick ==
    tick.ran => \A i \in SnakeIds :
        (WasAlive(i) /\ tick.last.Snakes[i].Health = 1 /\ ~HeadOnFood(i))
        => (frame.Snakes[i].Health = 0 /\ frame.Snakes[i].Death = DeathCauseStarvation)

\* C8 as amended: a snake alive with health 1 that does not eat ends the tick
\* with health 0 and no death cause when death detection finds no collision
\* for it, and with health 1 and a collision cause when it does; a snake that
\* enters a tick alive with health 0 or less (so in the tick after) ends it
\* with the death cause starvation, also when it collides.
C8_StarvesInNextTick ==
    tick.ran => \A i \in SnakeIds :
        /\ (WasAlive(i) /\ tick.last.Snakes[i].Health = 1 /\ ~HeadOnFood(i))
           => IF AliveAfterDetection(i)
              THEN frame.Snakes[i].Health = 0 /\ frame.Snakes[i].Death = ""
              ELSE /\ frame.Snakes[i].Health = 1
                   /\ frame.Snakes[i].Death \in {DeathCauseWallCollision,
                                                 DeathCauseSnakeCollision}
        /\ (WasAlive(i) /\ tick.last.Snakes[i].Health <= 0)
           => frame.Snakes[i].Death = DeathCauseStarvation

\* C8 witness: a snake with health 1 has moved without eating and without a
\* collision, and is left alive with health 0.
C8_Witness ==
    /\ tick.ran
    /\ \E i \in SnakeIds :
        /\ WasAlive(i) /\ tick.last.Snakes[i].Health = 1 /\ ~HeadOnFood(i)
        /\ tick.moved[i].Body # tick.last.Snakes[i].Body
        /\ frame.Snakes[i].Health = 0 /\ frame.Snakes[i].Death = ""

\* The food points (positions in the previous frame's food) under the head of
\* a snake that is alive after death detection.
EatenFood ==
    {k \in 1..Len(tick.last.Food) :
        \E i \in SnakeIds : /\ AliveAfterDetection(i) /\ tick.moved[i].Body # <<>>
                            /\ tick.moved[i].Body[1] = tick.last.Food[k]}

\* The grid cells that hold no remaining food and no body point of an alive
\* snake of the produced frame.
FreeCells ==
    {c \in Cells :
        /\ \A k \in (1..Len(tick.last.Food)) \ EatenFood : tick.last.Food[k] # c
        /\ \A i \in SnakeIds : frame.Snakes[i].Death = ""
              => \A k \in 1..Len(frame.Snakes[i].Body) : frame.Snakes[i].Body[k] # c}

\* C9: one food point eaten and a free cell: as many food points as before;
\* e food points eaten and no free cell: e food points fewer.
C9_FoodConservation ==
    tick.ran =>
        /\ (Cardinality(EatenFood) = 1 /\ FreeCells # {})
           => Len(frame.Food) = Len(tick.last.Food)
        /\ (FreeCells = {})
           => Len(frame.Food) = Len(tick.last.Food) - Cardinality(EatenFood)

\* C9 witness: two food points were eaten in a tick that left no cell free.
C9_Witness ==
    /\ tick.ran /\ Cardinality(EatenFood) = 2 /\ FreeCells = {}
    /\ Len(frame.Food) = Len(tick.last.Food) - 2

\* C10: a snake alive after death detection whose moved head is on food ends
\* the tick one point longer: the new head in front of the body it had.
C10_EatingGrows ==
    tick.ran => \A i \in SnakeIds :
        (AliveAfterDetection(i) /\ HeadOnFood(i))
        => /\ Len(frame.Snakes[i].Body) = Len(tick.last.Snakes[i].Body) + 1
           /\ frame.Snakes[i].Body = <<tick.moved[i].Body[1]>> \o tick.last.Snakes[i].Body

\* C10 witness: a snake of two points has eaten and has three.
C10_Witness ==
    /\ tick.ran
    /\ \E i \in SnakeIds :
        /\ AliveAfterDetection(i) /\ HeadOnFood(i)
        /\ Len(tick.last.Snakes[i].Body) = 2 /\ Len(frame.Snakes[i].Body) = 3

\* C11 as claimed: a snake alive after death detection, of body length L
\* before the tick, whose moved head is on no food point ends the tick with
\* length L-1, or L when its body was empty.
C11_NotEatingEndsShorter ==
    tick.ran => \A i \in SnakeIds :
        (AliveAfterDetection(i) /\ ~HeadOnFood(i))
        => Len(frame.Snakes[i].Body) =
              (IF Len(tick.last.Snakes[i].Body) = 0 THEN 0
               ELSE Len(tick.last.Snakes[i].Body) - 1)

\* C11 as amended: such a snake ends the tick with length L: the move puts a
\* new head in front and not eating takes the last point away, so the body is
\* the new head followed by the old body without its tail; an empty body
\* stays empty.
C11_NotEatingKeepsLength ==
    tick.ran => \A i \in SnakeIds :
        (AliveAfterDetection(i) /\ ~HeadOnFood(i))
        => /\ Len(frame.Snakes[i].Body) = Len(tick.last.Snakes[i].Body)
           /\ tick.last.Snakes[i].Body # <<>>
              => frame.Snakes[i].Body =
                    <<tick.moved[i].Body[1]>>
                    \o SubSeq(tick.last.Snakes[i].Body, 1,
                              Len(tick.last.Snakes[i].Body) - 1)

\* C11 witness: a snake of two points has moved to a cell without food, is
\* alive after death detection, and has two points again, the first one new.
C11_Witness ==
    /\ tick.ran
    /\ \E i \in SnakeIds :
        /\ AliveAfterDetection(i) /\ ~HeadOnFood(i)
        /\ Len(tick.last.Snakes[i].Body) = 2 /\ Len(frame.Snakes[i].Body) = 2
        /\ frame.Snakes[i].Body[1] # tick.last.Snakes[i].Body[1]
        /\ frame.Snakes[i].Body[2] = tick.last.Snakes[i].Body[1]

(***************************************************************************)
(* Further claims on the worker cycle (SpecWorker)                         *)
(***************************************************************************)
\* The turn numbers of the frames in the log of game g, in append order.
LogTurns(g) == [i \in 1..Len(frames[g]) |-> Unmarshal(frames[g][i]).Turn]

\* C12: in the log of every game the turn numbers increase by exactly 1 from
\* each frame to the next in append order: none twice, none skipped.
C12_TurnsIncreaseByOne ==
    \A g \in Games : \A i \in 1..(Len(frames[g]) - 1) :
        LogTurns(g)[i + 1] = LogTurns(g)[i] + 1

(***************************************************************************)
(* Further claims on the lock (SpecLock)                                   *)
(***************************************************************************)
\* Client c's pending Lock call runs its pipeline in this step, on game g.
LockRuns(c, g) ==
    /\ call[c].op = "Lock" /\ call[c].st = "pending" /\ call[c].game = g
    /\ call'[c].st = "done"

\* C13: a Lock call that runs while the lock of its game is held with token
\* t succeeds if and only if its token argument is t, and then returns t;
\* with any other argument, empty or not, it returns ErrIsLocked and an
\* empty token.
C13_RelockOnlyByHolder ==
    [][\A c \in Clients : \A g \in Games :
          (LockRuns(c, g) /\ lock[g] # NoLock)
          => IF call[c].arg = lock[g].token
             THEN call'[c].err = NilErr /\ call'[c].ret = lock[g].token
             ELSE call'[c].err = ErrIsLocked /\ call'[c].ret = EmptyToken]_vars

\* C13 witness: c1 created the lock, which has not been deleted since, and
\* c2's Lock with the token c1 got has succeeded and returned that token.
C13_Witness ==
    \E g \in Games : \E c1 \in Clients : \E c2 \in Clients \ {c1} :
        /\ RacingLock(c1, g) /\ call[c1].err = NilErr
        /\ lock[g].token = call[c1].ret
        /\ call[c2].op = "Lock" /\ call[c2].st = "done" /\ call[c2].game = g
        /\ call[c2].arg = call[c1].ret
        /\ call[c2].err = NilErr /\ call[c2].ret = call[c1].ret

\* C19: a Lock call that runs while the lock entry of its game exists leaves
\* the entry as it is, the token and the time left to its expiry, whether it
\* succeeds or returns ErrIsLocked.
C19_LockKeepsExistingEntry ==
    [][\A c \in Clients : \A g \in Games :
          (LockRuns(c, g) /\ lock[g] # NoLock)
          => /\ lock'[g] = lock[g]
             /\ call'[c].err \in {NilErr, ErrIsLocked}]_vars

\* C19 witness: c1 created the lock, which has not been deleted since; time
\* has passed, c2 has locked again with c1's token, and the lease is not a
\* full one.
C19_Witness ==
    \E g \in Games : \E c1 \in Clients : \E c2 \in Clients \ {c1} :
        /\ RacingLock(c1, g) /\ call[c1].err = NilErr
        /\ call[c2].op = "Lock" /\ call[c2].st = "done" /\ call[c2].game = g
        /\ call[c2].arg = call[c1].ret /\ call[c2].err = NilErr
        /\ lock[g] = [token |-> call[c1].ret, ttl |-> LeaseTicks - 1]

C14_PreviousFrameUnchanged ==
    tick.ran =>
        /\ tick.lastAfter.Turn = tick.last.Turn
        /\ tick.lastAfter.Food = tick.last.Food
        /\ \A i \in SnakeIds :
              /\ tick.lastAfter.Snakes[i].Body = tick.last.Snakes[i].Body
              /\ tick.lastAfter.Snakes[i].Health = tick.last.Snakes[i].Health
              /\ tick.lastAfter.Snakes[i].Death = tick.last.Snakes[i].Death

\* The positions in the produced frame's food of the replacement points: the
\* ones behind the food kept from the previous frame.
Replacements ==
    (Len(KeptFood(tick.last.Food, tick.foodToRemove)) + 1)..Len(frame.Food)

\* No two points of a food sequence are on the same cell.
DistinctFood(food) ==
    \A a \in 1..Len(food) : \A b \in 1..Len(food) : a # b => food[a] # food[b]

\* C15: every replacement food point is inside the grid, on a cell where the
\* produced frame has no other food point and no body point of an alive
\* snake; so the replacements of one tick are on distinct cells, and distinct
\* food points in the previous frame give distinct food points in the
\* produced frame.
C15_ReplacementOnFreeCell ==
    tick.ran =>
        /\ \A k \in Replacements :
              /\ frame.Food[k] \in Cells
              /\ \A j \in (1..Len(frame.Food)) \ {k} : frame.Food[j] # frame.Food[k]
              /\ \A i \in SnakeIds : frame.Snakes[i].Death = ""
                    => \A b \in 1..Len(frame.Snakes[i].Body) :
                          frame.Snakes[i].Body[b] # frame.Food[k]
        /\ DistinctFood(tick.last.Food) => DistinctFood(frame.Food)

\* The death causes this tick's death detection reported for snake i, in the
\* order of detection.
Reported(i) == SelectSeq(tick.deathUpdates, LAMBDA du : du.snake = i)

\* C16: a snake that enters the tick with a death cause keeps that cause; a
\* snake for which death detection reports one or more causes ends the tick
\* with the first of them; any other snake ends it without a cause.
C16_FirstCauseWins ==
    tick.ran => \A i \in SnakeIds :
        frame.Snakes[i].Death =
            (IF tick.last.Snakes[i].Death # "" THEN tick.last.Snakes[i].Death
             ELSE IF Reported(i) # <<>> THEN Reported(i)[1].death
             ELSE "")

\* C16 witness: death detection has reported two different causes for one
\* snake, and the snake carries the first; another snake was dead before.
C16_Witness ==
    /\ tick.ran
    /\ \E i \in SnakeIds :
        /\ Len(Reported(i)) >= 2 /\ Reported(i)[1].death # Reported(i)[2].death
        /\ frame.Snakes[i].Death = Reported(i)[1].death
        /\ \E j \in SnakeIds \ {i} :
              /\ tick.last.Snakes[j].Death # ""
              /\ frame.Snakes[j].Death = tick.last.Snakes[j].Death

\* C17: with h the health of a snake in the previous frame: a snake with a
\* death cause after this tick's death detection ends the tick with health h
\* and with the body its move gave it (no decay, no feeding, no tail taken);
\* a snake alive after death detection ends it with health h-1 when its head
\* is on no food point, and with health 100 when it is.
C17_HealthPerTick ==
    tick.ran => \A i \in SnakeIds :
        IF ~AliveAfterDetection(i)
        THEN /\ frame.Snakes[i].Health = tick.last.Snakes[i].Health
             /\ frame.Snakes[i].Body = tick.moved[i].Body
        ELSE IF HeadOnFood(i)
        THEN frame.Snakes[i].Health = 100
        ELSE frame.Snakes[i].Health = tick.last.Snakes[i].Health - 1

\* C17 witness: in one tick a snake has died on food and kept its health and
\* its whole moved body, and the other snake, at less than full health, has
\* eaten and is at 100.
C17_Witness ==
    /\ tick.ran
    /\ \E i \in SnakeIds : \E j \in SnakeIds \ {i} :
        /\ WasAlive(i) /\ ~AliveAfterDetection(i) /\ HeadOnFood(i)
        /\ frame.Snakes[i].Health = tick.last.Snakes[i].Health
        /\ Len(frame.Snakes[i].Body) = Len(tick.last.Snakes[i].Body) + 1
        /\ AliveAfterDetection(j) /\ HeadOnFood(j)
        /\ tick.last.Snakes[j].Health < 100 /\ frame.Snakes[j].Health = 100

\* C20: in every frame, the one GameTick starts from and the ones it
\* produces, every snake's health is between 0 and 100.
C20_HealthInRange ==
    \A i \in SnakeIds : frame.Snakes[i].Health \in 0..100

\* C20 witness: a snake that entered a tick alive with health 0 has left it
\* with health 0, after the tick before took its last health point.
C20_Witness ==
    /\ tick.ran /\ frame.Turn = MaxTurn
    /\ \E i \in SnakeIds :
        /\ WasAlive(i) /\ tick.last.Snakes[i].Health = 0
        /\ frame.Snakes[i].Health = 0
        /\ frame.Snakes[i].Death = DeathCauseStarvation

====
